---- MODULE Spec2Model ----
(***************************************************************************)
(* file-chunker: FileChunker::chunks (src/src/lib.rs).                     *)
(*                                                                         *)
(* A FileChunker owns a read-only memory map of a file.  chunks(count,     *)
(* delimiter) walks the map once and returns a vector of sub-slices.  The  *)
(* model runs one call step by step: the outer `while` of line 51, the     *)
(* inner delimiter scan of line 58, and the slice/push of lines 54 and 64. *)
(* Byte indices are 0-based as in the source; mmap is a TLA+ sequence, so  *)
(* byte i of the map is mmap[i + 1].                                       *)
(***************************************************************************)
EXTENDS Integers, Sequences, FiniteSets

\* ---------------------------------------------------------------- bounds
\* Longest file modelled.
MaxLen == 6

\* Largest chunk count requested.
MaxCount == 7

\* ------------------------------------------------------------- constants
\* Result of the saturating cast `f64::INFINITY as usize` (usize::MAX).  The
\* model checker's integers are 32 bits wide, so the largest of them stands
\* for usize::MAX; the value is only ever added to offset = 0 and compared
\* with the file length.
UsizeMax == 2147483647

\* u8 has 256 values (`delimiter as u8`).
U8Range == 256

\* Byte values the modelled files are made of: '\n' and '0'.
ByteVals == {10, 48}

\* Delimiter characters tried: '\n' (present in files), 'A' (never present)
\* and U+010A, a char wider than one byte whose `as u8` truncation is '\n'.
DelimChars == {10, 65, 266}

\* Option<char>: None is the empty sequence, Some(c) is <<c>>.
None == << >>

Some(c) == << c >>

DelimOpts == {None} \cup {Some(c) : c \in DelimChars}

\* All files of at most MaxLen bytes.
Files == UNION {[1..n -> ByteVals] : n \in 0..MaxLen}

VARIABLES
    mmap,        \* self.mmap: the file's bytes
    count,       \* argument `count`
    delimiter,   \* argument `delimiter`
    size,        \* local `chunk_size`
    offset,      \* local `offset`
    chunk_end,   \* local `chunk_end`
    chunks,      \* local `chunks`: sequence of slices [start, end)
    reads,       \* byte indices read by `self.mmap[chunk_end]`, in order
    pc           \* "idle", "loop", "scan", "done" (Ok returned), "panic"

vars == << mmap, count, delimiter, size, offset, chunk_end, chunks, reads, pc >>

\* self.mmap.len()
len == Len(mmap)

\* self.mmap[i], 0-based
ByteAt(i) == mmap[i + 1]

\* `delimiter as u8`: a char cast to u8 keeps the low 8 bits.
AsU8(c) == c % U8Range

\* ceil(count / file_size): operands of the division swapped.
chunk_size_swapped(file_size, cnt) ==
    IF file_size = 0 THEN UsizeMax
    ELSE (cnt + file_size - 1) \div file_size

\* floor(file_size / count): integer division instead of f64::ceil.
chunk_size_floor(file_size, cnt) ==
    IF cnt = 0 THEN (IF file_size = 0 THEN 0 ELSE UsizeMax)
    ELSE file_size \div cnt

\* fn chunk_size: f64::ceil(file_size as f64 / count as f64) as usize.
\* For count = 0 the quotient is NaN (0/0) or +inf (n/0); the cast to usize
\* saturates: NaN -> 0, +inf -> usize::MAX.  Below 2^53 the f64 quotient's
\* ceiling is the exact integer ceiling.
chunk_size(file_size, cnt) ==
    IF cnt = 0 THEN (IF file_size = 0 THEN 0 ELSE UsizeMax)
    ELSE (file_size + cnt - 1) \div cnt

\* Line 53: `chunk_end > self.mmap.len()`.
IsTail(e) == e > len

\* The scan condition testing for equality: stops at the first non-delimiter.
ScanCont_eq(e) == (e < len - 1) /\ (ByteAt(e) = AsU8(delimiter[1]))

\* The scan condition looking one byte ahead of the cursor.
ScanCont_ahead(e) == (e < len - 1) /\ (ByteAt(e + 1) # AsU8(delimiter[1]))

\* Line 58: the inner while condition, short-circuit: the byte is read only
\* when chunk_end < len - 1.  (len >= 1 here, so len - 1 does not underflow.)
ScanCont(e) == (e < len - 1) /\ (ByteAt(e) # AsU8(delimiter[1]))

\* Whether evaluating the condition of line 58 at e reads self.mmap[e].
ScanReads(e) == e < len - 1

\* &self.mmap[a..b] panics unless a <= b <= len.
SliceOk(a, b) == a <= b /\ b <= len

\* The bytes of a slice.
Bytes(c) == SubSeq(mmap, c.start + 1, c.end)

Init ==
    /\ mmap \in Files
    /\ count = 0
    /\ delimiter = None
    /\ size = 0
    /\ offset = 0
    /\ chunk_end = 0
    /\ chunks = << >>
    /\ reads = << >>
    /\ pc = "idle"

\* Lines 47-50: entry of chunks(count, delimiter).
Call ==
    /\ pc = "idle"
    /\ \E c \in 0..MaxCount, d \in DelimOpts :
          /\ count' = c
          /\ delimiter' = d
          /\ size' = chunk_size(len, c)
    /\ offset' = 0
    /\ chunks' = << >>
    /\ pc' = "loop"
    /\ UNCHANGED << mmap, chunk_end, reads >>

\* Line 51 false, line 68: the loop ends and Ok(chunks) is returned.
WhileExit ==
    /\ pc = "loop"
    /\ ~(offset < len)
    /\ pc' = "done"
    /\ UNCHANGED << mmap, count, delimiter, size, offset, chunk_end, chunks, reads >>

\* Lines 52-55: the rest of the file is pushed and the loop is left.
PushRest ==
    /\ pc = "loop"
    /\ offset < len
    /\ IsTail(offset + size)
    /\ chunk_end' = offset + size
    /\ chunks' = Append(chunks, [start |-> offset, end |-> len])
    /\ pc' = "done"
    /\ UNCHANGED << mmap, count, delimiter, size, offset, reads >>

\* Lines 52, 57 (None), 64-65: a chunk of exactly chunk_size bytes.
PushFixed ==
    /\ pc = "loop"
    /\ offset < len
    /\ ~IsTail(offset + size)
    /\ delimiter = None
    /\ chunk_end' = offset + size
    /\ IF SliceOk(offset, chunk_end')
       THEN /\ chunks' = Append(chunks, [start |-> offset, end |-> chunk_end'])
            /\ offset' = chunk_end'
            /\ pc' = "loop"
       ELSE /\ pc' = "panic"
            /\ UNCHANGED << chunks, offset >>
    /\ UNCHANGED << mmap, count, delimiter, size, reads >>

\* Lines 52, 57 (Some): the scan starts at the naive boundary.
EnterScan ==
    /\ pc = "loop"
    /\ offset < len
    /\ ~IsTail(offset + size)
    /\ delimiter # None
    /\ chunk_end' = offset + size
    /\ pc' = "scan"
    /\ UNCHANGED << mmap, count, delimiter, size, offset, chunks, reads >>

\* Lines 58-61: the condition holds, the cursor moves one byte on.
ScanStep ==
    /\ pc = "scan"
    /\ ScanCont(chunk_end)
    /\ reads' = IF ScanReads(chunk_end) THEN Append(reads, chunk_end) ELSE reads
    /\ chunk_end' = chunk_end + 1
    /\ UNCHANGED << mmap, count, delimiter, size, offset, chunks, pc >>

\* Lines 58 (false), 62, 64-65: the scan stops, the boundary moves one past
\* the cursor and the slice offset..chunk_end is taken.
ScanStop ==
    /\ pc = "scan"
    /\ ~ScanCont(chunk_end)
    /\ reads' = IF ScanReads(chunk_end) THEN Append(reads, chunk_end) ELSE reads
    /\ chunk_end' = chunk_end + 1
    /\ IF SliceOk(offset, chunk_end')
       THEN /\ chunks' = Append(chunks, [start |-> offset, end |-> chunk_end'])
            /\ offset' = chunk_end'
            /\ pc' = "loop"
       ELSE /\ pc' = "panic"
            /\ UNCHANGED << chunks, offset >>
    /\ UNCHANGED << mmap, count, delimiter, size >>

Next ==
    \/ Call
    \/ WhileExit
    \/ PushRest
    \/ PushFixed
    \/ EnterScan
    \/ ScanStep
    \/ ScanStop

Spec == Init /\ [][Next]_vars

\* chunks is sequential code: a started call keeps running until it returns
\* or panics.
FairSpec == Spec /\ WF_vars(Next)

\* ------------------------------------------------------------ properties
\* The call has been entered.
Called == pc # "idle"

\* The call has returned Ok(chunks).
Returned == pc = "done"

\* The call has ended, by returning or by panicking.
Finished == pc \in {"done", "panic"}

\* Ceiling of a / b for b >= 1, from its defining inequalities.
CeilDiv(a, b) == CHOOSE n \in 0..a : n * b >= a /\ (n - 1) * b < a

RECURSIVE Concat(_)
\* Concatenation of the bytes of a sequence of slices.
Concat(cs) == IF cs = << >> THEN << >> ELSE Bytes(Head(cs)) \o Concat(Tail(cs))

\* The slices tile [0, len): ascending, contiguous, disjoint, nothing missing.
Tiles(cs) ==
    /\ \A i \in DOMAIN cs : cs[i].start <= cs[i].end
    /\ \A i \in 1..(Len(cs) - 1) : cs[i + 1].start = cs[i].end
    /\ cs # << >> => cs[1].start = 0 /\ cs[Len(cs)].end = len
    /\ cs = << >> => len = 0
    /\ Concat(cs) = mmap

\* Smallest index >= b holding the delimiter byte, or len - 1 if there is none.
NextDelim(b) ==
    IF \E p \in b..(len - 1) : ByteAt(p) = AsU8(delimiter[1])
    THEN CHOOSE p \in b..(len - 1) :
            /\ ByteAt(p) = AsU8(delimiter[1])
            /\ \A q \in b..(p - 1) : ByteAt(q) # AsU8(delimiter[1])
    ELSE len - 1

\* C1: for every file, every count >= 1 and every delimiter option the call
\* yields chunks that are contiguous, non-overlapping, ascending, start at 0,
\* end at len and concatenate to the file.
C1_Coverage ==
    (count >= 1 /\ Finished) => (Returned /\ Tiles(chunks))

\* Every call that returns, for any count, returns a tiling of the file.
ReturnedTiles == Returned => Tiles(chunks)

\* C2: for count >= 1 the call never fails, never reads an index >= len and
\* never forms a chunk whose end exceeds len.
C2_NeverFails ==
    (Called /\ count >= 1) =>
        /\ pc # "panic"
        /\ \A i \in DOMAIN reads : reads[i] < len
        /\ \A i \in DOMAIN chunks : chunks[i].end <= len

\* C3: chunks(0, delimiter) fails before any scanning; it never returns a
\* chunk sequence.
C3_ZeroCountRejected ==
    (Called /\ count = 0) => (~Returned /\ chunks = << >>)

\* C4: with a delimiter and count >= 1 at most count chunks are produced.
C4_AtMostCount ==
    (Called /\ count >= 1 /\ delimiter # None) => Len(chunks) <= count

C4_Witness ==
    /\ Returned /\ delimiter # None /\ count >= 2
    /\ Len(chunks) = count

\* C5 as stated: without a delimiter and with len > 0 exactly count chunks
\* are returned for every count >= 1.
C5_ExactlyCount ==
    (Returned /\ count >= 1 /\ delimiter = None /\ len > 0) =>
        Len(chunks) = count

\* C5 amended: without a delimiter and with len > 0 the call returns
\* ceil(len / ceil(len / count)) chunks; that is at most count, and it is
\* count whenever count divides len.
C5_CountNoDelimiter ==
    (Returned /\ count >= 1 /\ delimiter = None /\ len > 0) =>
        /\ Len(chunks) = CeilDiv(len, CeilDiv(len, count))
        /\ Len(chunks) <= count
        /\ (len % count = 0 => Len(chunks) = count)

C5_Witness ==
    /\ Returned /\ count >= 1 /\ delimiter = None /\ len > 0
    /\ Len(chunks) >= 2 /\ Len(chunks) < count

\* C6: with a one-byte delimiter and count >= 1 every chunk but the last
\* ends with the delimiter byte.
C6_EndsWithDelimiter ==
    (Called /\ count >= 1 /\ delimiter # None /\ delimiter[1] < U8Range) =>
        \A i \in 1..(Len(chunks) - 1) :
            /\ chunks[i].end >= 1
            /\ ByteAt(chunks[i].end - 1) = delimiter[1]

C6_Witness ==
    /\ Returned /\ count >= 1 /\ delimiter # None /\ delimiter[1] < U8Range
    /\ Len(chunks) >= 2
    /\ ByteAt(len - 1) # delimiter[1]

\* C7: for count >= 1 no chunk has length zero, and the returned sequence is
\* empty exactly when the file is empty.
C7_NoEmptyChunk ==
    (Called /\ count >= 1) =>
        /\ \A i \in DOMAIN chunks : chunks[i].end > chunks[i].start
        /\ Returned => (chunks = << >> <=> len = 0)

C7_Witness ==
    /\ Returned /\ count > len /\ len >= 2
    /\ Len(chunks) = len

\* C8: without a delimiter, count >= 1 and len > 0, every chunk but the last
\* has length ceil(len / count) and the last has a length in
\* 1..ceil(len / count).
C8_FixedSize ==
    (Returned /\ count >= 1 /\ delimiter = None /\ len > 0) =>
        /\ chunks # << >>
        /\ \A i \in 1..(Len(chunks) - 1) :
              chunks[i].end - chunks[i].start = CeilDiv(len, count)
        /\ LET last == chunks[Len(chunks)]
           IN  (last.end - last.start) \in 1..CeilDiv(len, count)

C8_Witness ==
    /\ Returned /\ count >= 1 /\ delimiter = None
    /\ Len(chunks) >= 2
    /\ LET last == chunks[Len(chunks)]
       IN  last.end - last.start < CeilDiv(len, count)

\* C9: with a delimiter, a chunk whose naive boundary b = start +
\* ceil(len / count) lies before len ends one past the first delimiter at or
\* after b, or at len if there is none; a file longer than the target size
\* that holds no delimiter comes back as one chunk.
C9_BoundaryAfterDelimiter ==
    (Called /\ count >= 1 /\ delimiter # None) =>
        /\ \A i \in DOMAIN chunks :
              LET b == chunks[i].start + CeilDiv(len, count)
              IN  b < len => chunks[i].end = NextDelim(b) + 1
        /\ ( /\ Returned
             /\ len > CeilDiv(len, count)
             /\ \A p \in 0..(len - 1) : ByteAt(p) # AsU8(delimiter[1]) )
           => chunks = << [start |-> 0, end |-> len] >>

C9_Witness ==
    /\ Returned /\ count >= 2 /\ delimiter # None
    /\ Len(chunks) >= 2
    /\ chunks[1].end > CeilDiv(len, count) + 1
    /\ chunks[1].end < len

\* C10: a call with count >= 1 ends; every pass of the outer loop that comes
\* back to the loop test has moved offset forward; the scan reads strictly
\* ascending indices, so no index twice.
C10_Terminates ==
    /\ (Called /\ count >= 1) ~> Finished
    /\ [][(count >= 1 /\ Called /\ pc' = "loop") => offset' > offset]_vars
    /\ [](\A i, j \in DOMAIN reads : i < j => reads[i] < reads[j])

C10_Witness ==
    /\ Returned /\ count >= 1
    /\ Len(chunks) >= 2 /\ Len(reads) >= 3

====
